---- MODULE Spec2Model ----
(***************************************************************************)
(* Model of ngi_pipeline/common/__init__.py: the launcher main, the        *)
(* reconciler setup_analysis_directory_structure, the CASAVA tree parser   *)
(* parse_casava_directory, the NGIObject hierarchy                         *)
(* (NGIProject -> NGISample -> NGIFCID -> fastq list) and the utilities    *)
(* parse_lane_from_filename, find_fastq_read_pairs and                     *)
(* get_flowcell_id_from_dirtree.                                           *)
(*                                                                         *)
(* Strings are sequences of one-character strings, so that prefix/suffix   *)
(* tests, str.replace and the regular expressions are computed and not     *)
(* assumed.  A path is a sequence of such names (its components).          *)
(***************************************************************************)
EXTENDS Naturals, Sequences, FiniteSets

(***************************************************************************)
(* Bounds of the model.                                                    *)
(***************************************************************************)
\* largest number of demultiplexed flowcell directories handed to main
MaxTrees == 2
\* largest number of names in --project / --sample
MaxFilter == 1
\* largest number of NGIObject instances a client of the hierarchy creates
MaxObjects == 3
\* largest number of file names a client appends to one NGIFCID
MaxFastqs == 1

(***************************************************************************)
(* String helpers (Python str and fnmatch semantics).                      *)
(***************************************************************************)
StartsWith(s, p) == Len(s) >= Len(p) /\ SubSeq(s, 1, Len(p)) = p

EndsWith(s, p) == Len(s) >= Len(p) /\ SubSeq(s, Len(s) - Len(p) + 1, Len(s)) = p

\* str.replace(old, new): left to right, non-overlapping, every occurrence
RECURSIVE Replace(_, _, _)
Replace(s, old, new) ==
    IF Len(s) < Len(old) \/ Len(old) = 0 THEN s
    ELSE IF SubSeq(s, 1, Len(old)) = old
         THEN new \o Replace(SubSeq(s, Len(old) + 1, Len(s)), old, new)
         ELSE <<s[1]>> \o Replace(Tail(s), old, new)

\* glob of "<prefix>*" in one directory: fnmatch on the entry name
GlobPrefix(name, prefix) == StartsWith(name, prefix)

\* glob of "*<suffix>" in one directory: fnmatch on the entry name; a pattern
\* that starts with a wildcard never matches a hidden (dot) entry
GlobSuffix(name, suffix) ==
    /\ EndsWith(name, suffix)
    /\ ~(Len(name) > 0 /\ name[1] = ".")

\* concatenation of a sequence of sequences
RECURSIVE Flatten(_)
Flatten(ss) == IF ss = <<>> THEN <<>> ELSE Head(ss) \o Flatten(Tail(ss))

\* [f(x) for x in s]
Map(s, f(_)) == [i \in 1..Len(s) |-> f(s[i])]

Range(s) == {s[i] : i \in 1..Len(s)}

s_Project_ == <<"P", "r", "o", "j", "e", "c", "t", "_">>
s_Sample_ == <<"S", "a", "m", "p", "l", "e", "_">>
s_Unaligned == <<"U", "n", "a", "l", "i", "g", "n", "e", "d">>
s_Basecall_Stats_ == <<"B", "a", "s", "e", "c", "a", "l", "l", "_", "S", "t", "a", "t", "s", "_">>
s_uu == <<"_", "_">>
s_u == <<"_">>
s_dot == <<".">>
s_fastq == <<".", "f", "a", "s", "t", "q">>
s_fq == <<".", "f", "q">>
s_gz == <<".", "g", "z">>
s_gzip == <<".", "g", "z", "i", "p">>
s_bz2 == <<".", "b", "z", "2">>
s_csv == <<".", "c", "s", "v">>
s_htm == <<".", "h", "t", "m">>
s_metrics == <<".", "m", "e", "t", "r", "i", "c", "s">>
s_xml == <<".", "x", "m", "l">>
s_xsl == <<".", "x", "s", "l">>
s_txt == <<".", "t", "x", "t">>
s_Plots == <<"P", "l", "o", "t", "s">>
s_css == <<"c", "s", "s">>
s_Temp == <<"T", "e", "m", "p">>

(***************************************************************************)
(* The source filesystem.  A directory entry is [name, entries]; a plain   *)
(* file has no entries.  Listing order is the order glob returns.          *)
(***************************************************************************)
File(name) == [name |-> name, entries |-> <<>>]

Dir(name, entries) == [name |-> name, entries |-> entries]

f_csv == File(<<"S">> \o s_csv)
f_csv2 == File(<<"T">> \o s_csv)
f_x1 == File(<<"x", "_", "1">> \o s_fastq \o s_gz)
f_x2 == File(<<"x", "_", "2">> \o s_fastq \o s_gz)
f_y1 == File(<<"y", "_", "1">> \o s_fastq \o s_gz)
f_z == File(<<"z">> \o s_fastq \o s_gz)
f_w == File(<<"w">> \o s_fastq \o s_gz)
f_v == File(<<"v">> \o s_fastq \o s_gz)
f_q == File(<<"q">> \o s_fastq \o s_gz)
f_hidden == File(s_fastq \o s_gz)
f_txt == File(<<"n">> \o s_txt)
f_plainfq == File(<<"r">> \o s_fq)

n_S1 == <<"S", "1">>
n_S_2 == <<"S", ".", "2">>
n_A == <<"A">>
n_B_x == <<"B", ".", "x">>

d_Sample_S1(files) == Dir(s_Sample_ \o n_S1, files)
d_Sample_S__2(files) == Dir(s_Sample_ \o <<"S">> \o s_uu \o <<"2">>, files)
d_Sample_S3(files) == Dir(s_Sample_ \o <<"S", "3">>, files)
d_Project_A(samples) == Dir(s_Project_ \o n_A, samples)
d_Project_B__x(samples) == Dir(s_Project_ \o <<"B">> \o s_uu \o <<"x">>, samples)
d_Stats(id, entries) == Dir(s_Basecall_Stats_ \o id, entries)
d_Undetermined == Dir(<<"U", "n", "d">>, <<Dir(s_Sample_ \o <<"l", "1">>, <<f_q>>)>>)

meta_A == [run_info |-> [k \in {"Flowcell", "Date"} |->
                            IF k = "Flowcell" THEN <<"H", "8">> ELSE <<"1", "4">>],
           runparams |-> [k \in {"FCPosition"} |-> <<"A">>]]
meta_B == [run_info |-> [k \in {"Flowcell", "Date"} |->
                            IF k = "Flowcell" THEN <<"H", "9">> ELSE <<"1", "5">>],
           runparams |-> [k \in {"FCPosition"} |-> <<"B">>]]
meta_D == [run_info |-> [k \in {"Flowcell", "Date"} |->
                            IF k = "Flowcell" THEN <<"H", "7">> ELSE <<"1", "6">>],
           runparams |-> [k \in {"FCPosition"} |-> <<"A">>]]
\* RunParameters without FCPosition
meta_bad == [run_info |-> meta_A.run_info, runparams |-> [k \in {} |-> <<>>]]

entries_A ==
    << Dir(<<"D", "a", "t", "a">>, <<>>),
       Dir(s_Unaligned,
           << d_Stats(<<"H", "8">>, <<File(<<"a">> \o s_htm), Dir(s_Plots, <<>>),
                                      Dir(s_Temp, <<>>)>>),
              d_Project_A(<<d_Sample_S1(<<f_x1, f_x2, f_csv>>)>>),
              d_Undetermined >>) >>

\* the demultiplexed flowcell directories main may be given
FcDirs ==
    {"fcA", "fcA2", "fcB", "fcD", "fcMissing", "fcBadMeta", "fcAmbig0", "fcAmbig2"}

FileSystem(fc) ==
    CASE fc = "fcA" ->
           [exists |-> TRUE, name |-> <<"f", "c", "A">>, meta |-> meta_A,
            entries |-> entries_A]
      \* the same flowcell reached under a second path
      [] fc = "fcA2" ->
           [exists |-> TRUE, name |-> <<"f", "c", "A", "2">>, meta |-> meta_A,
            entries |-> entries_A]
      [] fc = "fcB" ->
           [exists |-> TRUE, name |-> <<"f", "c", "B">>, meta |-> meta_B,
            entries |->
              << Dir(s_Unaligned,
                   << d_Stats(<<"H", "9">>, <<File(<<"b">> \o s_xml), Dir(s_css, <<>>)>>),
                      d_Project_A(<<d_Sample_S1(<<f_y1, f_csv>>)>>),
                      d_Project_B__x(<<d_Sample_S__2(<<f_z, f_txt, f_plainfq,
                                                       f_hidden, f_csv>>)>>) >>) >>]
      \* two Unaligned* directories holding the same project and sample
      [] fc = "fcD" ->
           [exists |-> TRUE, name |-> <<"f", "c", "D">>, meta |-> meta_D,
            entries |->
              << Dir(s_Unaligned,
                   << d_Stats(<<"H", "7">>, <<>>),
                      d_Project_A(<<d_Sample_S1(<<f_w, f_csv>>)>>) >>),
                 Dir(s_Unaligned \o <<"_", "1", "6">>,
                   << d_Project_A(<<d_Sample_S1(<<f_w, f_csv>>)>>) >>) >>]
      [] fc = "fcMissing" ->
           [exists |-> FALSE, name |-> <<"f", "c", "M">>, meta |-> meta_bad,
            entries |-> <<>>]
      [] fc = "fcBadMeta" ->
           [exists |-> TRUE, name |-> <<"f", "c", "X">>, meta |-> meta_bad,
            entries |-> entries_A]
      \* one sample directory without any samplesheet
      [] fc = "fcAmbig0" ->
           [exists |-> TRUE, name |-> <<"f", "c", "0">>, meta |-> meta_D,
            entries |->
              << Dir(s_Unaligned,
                   << d_Project_A(<<d_Sample_S1(<<f_v, f_csv>>),
                                    d_Sample_S3(<<f_q>>)>>) >>) >>]
      \* one sample directory with two samplesheets
      [] fc = "fcAmbig2" ->
           [exists |-> TRUE, name |-> <<"f", "c", "2">>, meta |-> meta_D,
            entries |->
              << Dir(s_Unaligned,
                   << d_Project_A(<<d_Sample_S3(<<f_q, f_csv, f_csv2>>),
                                    d_Sample_S1(<<f_v, f_csv>>)>>) >>) >>]

(***************************************************************************)
(* parse_casava_directory                                                  *)
(***************************************************************************)
\* glob.glob(os.path.join(dir, prefix + "*")): the matching entries of dir
GlobDirPrefix(entries, prefix) ==
    SelectSeq(entries, LAMBDA e : GlobPrefix(e.name, prefix))

GlobDirSuffix(entries, suffix) ==
    SelectSeq(entries, LAMBDA e : GlobSuffix(e.name, suffix))

\* one element of project_samples; the assert of line 253 is the field "ok"
parse_sample(sample_dir) ==
    LET fastq_files == Map(GlobDirSuffix(sample_dir.entries, s_fastq \o s_gz),
                           LAMBDA e : e.name)
        samplesheet == GlobDirSuffix(sample_dir.entries, s_csv)
    IN  [ok |-> Len(samplesheet) = 1,
         sample_dir |-> sample_dir.name,
         sample_name |-> Replace(Replace(sample_dir.name, s_Sample_, <<>>), s_uu, s_dot),
         files |-> fastq_files,
         samplesheet |-> IF Len(samplesheet) >= 1 THEN samplesheet[1].name ELSE <<>>]

\* one element of projects, for a Project_* directory below an Unaligned* one
parse_project(unaligned, project_dir) ==
    [data_dir |-> <<unaligned.name>>,
     project_dir |-> project_dir.name,
     project_name |-> Replace(Replace(project_dir.name, s_Project_, <<>>), s_uu, s_dot),
     samples |-> Map(GlobDirPrefix(project_dir.entries, s_Sample_), parse_sample)]

\* the result is [raised, value]: raised is "" or the exception's type
parse_casava_directory(fc) ==
    LET tree == FileSystem(fc)
        run_info == tree.meta.run_info
        runparams == tree.meta.runparams
        unaligned == GlobDirPrefix(tree.entries, s_Unaligned)
        basecall_stats_dir ==
            Flatten(Map(unaligned, LAMBDA u :
                Map(GlobDirPrefix(u.entries, s_Basecall_Stats_),
                    LAMBDA d : <<u.name, d.name>>)))
        projects ==
            Flatten(Map(unaligned, LAMBDA u :
                Map(GlobDirPrefix(u.entries, s_Project_),
                    LAMBDA d : parse_project(u, d))))
        asserted ==
            \A i \in 1..Len(projects) :
                \A j \in 1..Len(projects[i].samples) : projects[i].samples[j].ok
    IN  IF ~({"Flowcell", "Date"} \subseteq DOMAIN run_info
             /\ "FCPosition" \in DOMAIN runparams)
        THEN [raised |-> "RuntimeError", value |-> <<>>]
        ELSE IF ~asserted
        THEN [raised |-> "AssertionError", value |-> <<>>]
        ELSE [raised |-> "",
              value |-> [fc_dir |-> <<tree.name>>,
                         fc_name |-> runparams["FCPosition"] \o run_info["Flowcell"],
                         fc_date |-> run_info["Date"],
                         basecall_stats_dir |-> basecall_stats_dir,
                         projects |-> projects]]

(***************************************************************************)
(* The object hierarchy.  heap[oid] is an object; a reference is an oid.   *)
(* An NGIProject or NGISample keeps _subitems as a dict name -> oid, an    *)
(* NGIFCID keeps it as the list of fastq file names.                       *)
(***************************************************************************)
EmptyDict == [k \in {} |-> 0]

\* d[key] = value on a dict
DictSet(d, key, value) ==
    [k \in DOMAIN d \cup {key} |-> IF k = key THEN value ELSE d[k]]

NGIProject(name, dirname, base_path) ==
    [type |-> "NGIProject", name |-> name, dirname |-> dirname,
     base_path |-> base_path, _subitems |-> EmptyDict]

NGISample(name, dirname) ==
    [type |-> "NGISample", name |-> name, dirname |-> dirname, _subitems |-> EmptyDict]

NGIFCID(name, dirname) ==
    [type |-> "NGIFCID", name |-> name, dirname |-> dirname, _subitems |-> <<>>]

\* self._subitem_type(name, dirname)
subitem_type(parent, name, dirname) ==
    IF parent.type = "NGIProject" THEN NGISample(name, dirname)
                                  ELSE NGIFCID(name, dirname)

\* _add_subitem without the lookup: the child is created and stored every time
_add_subitem_always_new(h, self, name, dirname) ==
    LET new == Len(h) + 1
    IN  [heap |-> Append([h EXCEPT ![self]._subitems = DictSet(@, name, new)],
                         subitem_type(h[self], name, dirname)),
         subitem |-> new]

\* NGIObject._add_subitem on heap[self]: the new heap and the returned reference
_add_subitem(h, self, name, dirname) ==
    IF name \in DOMAIN h[self]._subitems
    THEN [heap |-> h, subitem |-> h[self]._subitems[name]]
    ELSE LET new == Len(h) + 1
         IN  [heap |-> Append([h EXCEPT ![self]._subitems = DictSet(@, name, new)],
                              subitem_type(h[self], name, dirname)),
              subitem |-> new]

\* NGIFCID.add_fastq_files with a list argument
add_fastq_files(h, self, fastq) ==
    [h EXCEPT ![self]._subitems = @ \o fastq]

\* a lookup that creates the project on KeyError but does not store it
project_lookup_unregistered(pta, h, project_dir, project_name, base_path) ==
    IF pta.type # "dict"
    THEN [raised |-> "TypeError", pta |-> pta, heap |-> h, project_obj |-> 0]
    ELSE [raised |-> "", pta |-> pta,
          heap |-> Append(h, NGIProject(project_name, project_name, base_path)),
          project_obj |-> Len(h) + 1]

\* lines 142-146: projects_to_analyze[project_dir], created on KeyError.  The
\* subscript of a list with a str raises TypeError.
project_lookup(pta, h, project_dir, project_name, base_path) ==
    IF pta.type # "dict"
    THEN [raised |-> "TypeError", pta |-> pta, heap |-> h, project_obj |-> 0]
    ELSE IF project_dir \in DOMAIN pta.items
    THEN [raised |-> "", pta |-> pta, heap |-> h, project_obj |-> pta.items[project_dir]]
    ELSE LET new == Len(h) + 1
         IN  [raised |-> "",
              pta |-> [pta EXCEPT !.items = DictSet(@, project_dir, new)],
              heap |-> Append(h, NGIProject(project_name, project_name, base_path)),
              project_obj |-> new]

\* the values dict() and [] of projects_to_analyze
NewDict == [type |-> "dict", items |-> EmptyDict]
EmptyList == [type |-> "list", items |-> <<>>]

\* a test against None instead of the truth value
Truthy_is_not_None(pta) == TRUE

\* Python truth value of projects_to_analyze
Truthy(pta) == DOMAIN pta.items # {}

(***************************************************************************)
(* Helpers of the reconciler.                                              *)
(***************************************************************************)
analysis_top_dir == << <<"t", "o", "p">> >>

\* os.path.basename of a path
basename(path) == path[Len(path)]

\* ngi_pipeline.utils.safe_makedir: create the directory unless it exists
safe_makedir(ds, path) == ds \cup {path}

\* the pattern of line 177, ".*\.(fastq|fq)(\.gz|\.gzip|\.bz2)?$", with re.match
fastq_pattern(name) ==
    \E stem \in {s_fastq, s_fq} :
        \E compr \in {<<>>, s_gz, s_gzip, s_bz2} : EndsWith(name, stem \o compr)

\* a filter that keeps the uncompressed names only
fastq_filter_uncompressed(files) ==
    SelectSeq(files, LAMBDA name : EndsWith(name, s_fastq) \/ EndsWith(name, s_fq))

\* filter(pattern.match, files)
fastq_filter(files) == SelectSeq(files, fastq_pattern)

\* the files and directories _copy_basecall_stats hands to rsync for one
\* Basecall_Stats directory, given as its path below fc_dir
stats_files(fc, rel) ==
    LET unaligned == SelectSeq(FileSystem(fc).entries, LAMBDA e : e.name = rel[1])
        stats == SelectSeq(unaligned[1].entries, LAMBDA e : e.name = rel[2])
        source_dir == <<FileSystem(fc).name>> \o rel
        names(sel) == Map(sel, LAMBDA e : source_dir \o <<e.name>>)
    IN  names(GlobDirSuffix(stats[1].entries, s_htm))
        \o names(GlobDirSuffix(stats[1].entries, s_metrics))
        \o names(GlobDirSuffix(stats[1].entries, s_xml))
        \o names(GlobDirSuffix(stats[1].entries, s_xsl))
        \o names(SelectSeq(stats[1].entries, LAMBDA e : e.name = s_Plots))
        \o names(SelectSeq(stats[1].entries, LAMBDA e : e.name = s_css))

\* a run id made of the date alone
run_id_date_only(structure) == structure.fc_date

\* "{}_{}".format(fc_date, fc_name)
run_id(structure) == structure.fc_date \o s_u \o structure.fc_name

\* the names --project may carry, and the names --sample may carry
FilterProjects == {n_A, n_B_x}
FilterSamples == {n_S1, n_S_2}

Subsets(S, n) == {T \in SUBSET S : Cardinality(T) <= n}

\* a call of the hierarchy: the operation, the object (or dict) it is called on,
\* the name and dirname passed, and the reference returned
Call(op, self, name, dirname, subitem) ==
    [op |-> op, self |-> self, name |-> name, dirname |-> dirname, subitem |-> subitem]

NoCall == Call("", 0, <<>>, <<>>, 0)

\* a call of a utility function: its name, its argument, the exception that
\* left it ("" when it returned) and the value it returned
Utility(op, arg, raised, value) ==
    [op |-> op, arg |-> arg, raised |-> raised, value |-> value]

NoUtility == Utility("", <<>>, "", <<>>)

VARIABLES
    config,                 \* what the configuration file and the disk provide
    demux_fcid_dirs_set,    \* main: the flowcell directories to process
    restrict_to_projects,   \* main: --project
    restrict_to_samples,    \* main: --sample
    pc,                     \* the statement main or the reconciler is at
    outcome,                \* "" while running, then how main ended
    todo,                   \* main: directories the for loop has not taken yet
    fc,                     \* reconciler: fc_dir
    fc_dir_structure,       \* reconciler: the parsed tree
    i_stats,                \* _copy_basecall_stats: index in source_dirs
    i_project,              \* reconciler: index in projects
    i_sample,               \* reconciler: index in samples
    project_obj,            \* reconciler: reference held in project_obj
    sample_obj,             \* reconciler: reference held in sample_obj
    fcid_obj,               \* reconciler: reference held in fcid_obj
    projects_to_analyze,    \* the accumulating dict (or the list a skip returns)
    heap,                   \* the NGIObject instances
    dirs,                   \* directories that exist below analysis_top_dir
    rsync_calls,            \* the calls the transfer capability has received
    last_call,              \* the latest insertion into the hierarchy and its result
    utility                 \* the latest call of a stateless utility and what it gave

vars == <<config, demux_fcid_dirs_set, restrict_to_projects, restrict_to_samples,
          pc, outcome, todo, fc, fc_dir_structure, i_stats, i_project, i_sample,
          project_obj, sample_obj, fcid_obj, projects_to_analyze, heap, dirs,
          rsync_calls, last_call, utility>>

inputs == <<config, demux_fcid_dirs_set, restrict_to_projects, restrict_to_samples>>
locals == <<fc, fc_dir_structure, i_stats, i_project, i_sample,
            project_obj, sample_obj, fcid_obj>>

Init ==
    /\ config \in [file : BOOLEAN, top_dir : BOOLEAN, analysis_engine : BOOLEAN]
    /\ demux_fcid_dirs_set \in Subsets(FcDirs, MaxTrees)
    /\ restrict_to_projects \in Subsets(FilterProjects, MaxFilter)
    /\ restrict_to_samples \in Subsets(FilterSamples, MaxFilter)
    /\ pc = "main"
    /\ outcome = ""
    /\ todo = {}
    /\ fc = ""
    /\ fc_dir_structure = <<>>
    /\ i_stats = 0
    /\ i_project = 0
    /\ i_sample = 0
    /\ project_obj = 0
    /\ sample_obj = 0
    /\ fcid_obj = 0
    /\ projects_to_analyze = NewDict
    /\ heap = <<>>
    /\ dirs = IF config.top_dir THEN {analysis_top_dir} ELSE {}
    /\ rsync_calls = <<>>
    /\ last_call = NoCall
    /\ utility = NoUtility

\* an exception leaves main: nothing runs after it
Raise(exc) ==
    /\ pc' = "raised"
    /\ outcome' = exc

(***************************************************************************)
(* main, lines 43-57                                                       *)
(***************************************************************************)
MainConfigMissing ==
    /\ pc = "main"
    /\ ~config.file
    /\ Raise("RuntimeError: configuration file")
    /\ UNCHANGED <<utility, inputs, locals, todo, projects_to_analyze, heap, dirs, rsync_calls, last_call>>

MainStart ==
    /\ pc = "main"
    /\ config.file
    /\ pc' = "for"
    /\ todo' = demux_fcid_dirs_set
    /\ projects_to_analyze' = NewDict
    /\ UNCHANGED <<utility, inputs, locals, outcome, heap, dirs, rsync_calls, last_call>>

(***************************************************************************)
(* main, line 58, entering setup_analysis_directory_structure, lines       *)
(* 102-121.  The set is iterated in no particular order.                   *)
(***************************************************************************)
SetupTopDirMissing(d) ==
    /\ pc = "for"
    /\ d \in todo
    /\ analysis_top_dir \notin dirs
    /\ Raise("OSError")
    /\ todo' = todo \ {d}
    /\ fc' = d
    /\ UNCHANGED <<utility, inputs, fc_dir_structure, i_stats, i_project, i_sample, project_obj,
                   sample_obj, fcid_obj, projects_to_analyze, heap, dirs, rsync_calls, last_call>>

\* the flowcell directory does not exist, or parse_casava_directory raised
\* RuntimeError: the reconciler returns [] and main binds it
SetupSkipped(d) ==
    /\ pc = "for"
    /\ d \in todo
    /\ analysis_top_dir \in dirs
    /\ \/ ~FileSystem(d).exists
       \/ parse_casava_directory(d).raised = "RuntimeError"
    /\ todo' = todo \ {d}
    /\ fc' = d
    /\ projects_to_analyze' = EmptyList
    /\ UNCHANGED <<utility, inputs, pc, outcome, fc_dir_structure, i_stats, i_project, i_sample,
                   project_obj, sample_obj, fcid_obj, heap, dirs, rsync_calls, last_call>>

\* the assert of line 253 fails: AssertionError is no RuntimeError
SetupAssertion(d) ==
    /\ pc = "for"
    /\ d \in todo
    /\ analysis_top_dir \in dirs
    /\ FileSystem(d).exists
    /\ parse_casava_directory(d).raised = "AssertionError"
    /\ Raise("AssertionError")
    /\ todo' = todo \ {d}
    /\ fc' = d
    /\ UNCHANGED <<utility, inputs, fc_dir_structure, i_stats, i_project, i_sample, project_obj,
                   sample_obj, fcid_obj, projects_to_analyze, heap, dirs, rsync_calls, last_call>>

\* the reconciler without the copy of the statistics
SetupParsed_without_stats(d) ==
    /\ pc = "for"
    /\ d \in todo
    /\ analysis_top_dir \in dirs
    /\ FileSystem(d).exists
    /\ parse_casava_directory(d).raised = ""
    /\ todo' = todo \ {d}
    /\ fc' = d
    /\ fc_dir_structure' = parse_casava_directory(d).value
    /\ i_project' = 1
    /\ pc' = "project"
    /\ UNCHANGED <<utility, inputs, outcome, i_stats, i_sample, project_obj, sample_obj,
                   fcid_obj, projects_to_analyze, heap, dirs, rsync_calls, last_call>>

SetupParsed(d) ==
    /\ pc = "for"
    /\ d \in todo
    /\ analysis_top_dir \in dirs
    /\ FileSystem(d).exists
    /\ parse_casava_directory(d).raised = ""
    /\ todo' = todo \ {d}
    /\ fc' = d
    /\ fc_dir_structure' = parse_casava_directory(d).value
    /\ i_stats' = 1
    /\ pc' = "stats"
    /\ UNCHANGED <<utility, inputs, outcome, i_project, i_sample, project_obj, sample_obj,
                   fcid_obj, projects_to_analyze, heap, dirs, rsync_calls, last_call>>

(***************************************************************************)
(* _copy_basecall_stats, one source_dir per step; do_rsync raises          *)
(* CalledProcessError when rsync fails                                     *)
(***************************************************************************)
copy_basecall_stats(ok) ==
    /\ pc = "stats"
    /\ i_stats <= Len(fc_dir_structure.basecall_stats_dir)
    /\ LET rel == fc_dir_structure.basecall_stats_dir[i_stats]
           dirname == analysis_top_dir \o <<basename(rel)>>
       IN  /\ dirs' = safe_makedir(dirs, dirname)
           /\ rsync_calls' = Append(rsync_calls,
                                    [caller |-> "_copy_basecall_stats", fc |-> fc,
                                     src |-> stats_files(fc, rel), dst |-> dirname,
                                     ok |-> ok])
    /\ IF ok THEN /\ i_stats' = i_stats + 1
                  /\ UNCHANGED <<pc, outcome>>
             ELSE /\ Raise("CalledProcessError")
                  /\ UNCHANGED i_stats
    /\ UNCHANGED <<utility, inputs, todo, fc, fc_dir_structure, i_project, i_sample, project_obj,
                   sample_obj, fcid_obj, projects_to_analyze, heap, last_call>>

\* lines 129-132: the statistics are copied, the project loop starts
StatsDone ==
    /\ pc = "stats"
    /\ i_stats > Len(fc_dir_structure.basecall_stats_dir)
    /\ pc' = "project"
    /\ i_project' = 1
    /\ UNCHANGED <<utility, inputs, outcome, todo, fc, fc_dir_structure, i_stats, i_sample,
                   project_obj, sample_obj, fcid_obj, projects_to_analyze, heap, dirs,
                   rsync_calls, last_call>>

(***************************************************************************)
(* the project loop, lines 132-146                                         *)
(***************************************************************************)
project == fc_dir_structure.projects[i_project]
project_dir == analysis_top_dir \o <<project.project_name>>

\* the allow-list of projects is not consulted
project_skipped_never(name) == FALSE

\* line 135
project_skipped(name) ==
    restrict_to_projects # {} /\ name \notin restrict_to_projects

ProjectSkip ==
    /\ pc = "project"
    /\ i_project <= Len(fc_dir_structure.projects)
    /\ project_skipped(project.project_name)
    /\ i_project' = i_project + 1
    /\ UNCHANGED <<utility, inputs, pc, outcome, todo, fc, fc_dir_structure, i_stats, i_sample,
                   project_obj, sample_obj, fcid_obj, projects_to_analyze, heap, dirs,
                   rsync_calls, last_call>>

\* line 141
ProjectMakedir ==
    /\ pc = "project"
    /\ i_project <= Len(fc_dir_structure.projects)
    /\ ~project_skipped(project.project_name)
    /\ dirs' = IF project_dir \in dirs THEN dirs ELSE safe_makedir(dirs, project_dir)
    /\ pc' = "project_obj"
    /\ UNCHANGED <<utility, inputs, outcome, todo, locals, projects_to_analyze, heap, rsync_calls, last_call>>

\* lines 142-146
ProjectObj ==
    /\ pc = "project_obj"
    /\ LET r == project_lookup(projects_to_analyze, heap, project_dir,
                               project.project_name, analysis_top_dir)
       IN  IF r.raised # ""
           THEN /\ Raise(r.raised)
                /\ UNCHANGED <<projects_to_analyze, heap, project_obj, i_sample, last_call>>
           ELSE /\ projects_to_analyze' = r.pta
                /\ heap' = r.heap
                /\ project_obj' = r.project_obj
                /\ last_call' = Call("project_lookup", 0, project.project_name,
                                     project.project_name, r.project_obj)
                /\ i_sample' = 1
                /\ pc' = "sample"
                /\ UNCHANGED outcome
    /\ UNCHANGED <<utility, inputs, todo, fc, fc_dir_structure, i_stats, i_project, sample_obj,
                   fcid_obj, dirs, rsync_calls>>

\* line 180: return projects_to_analyze
SetupReturn ==
    /\ pc = "project"
    /\ i_project > Len(fc_dir_structure.projects)
    /\ pc' = "for"
    /\ UNCHANGED <<utility, inputs, outcome, todo, locals, projects_to_analyze, heap, dirs,
                   rsync_calls, last_call>>

(***************************************************************************)
(* the sample loop, lines 148-179                                          *)
(***************************************************************************)
sample == project.samples[i_sample]
\* line 150
sample_name == Replace(sample.sample_name, s_uu, s_dot)
sample_dir == project_dir \o <<sample_name>>
fc_run_id == run_id(fc_dir_structure)
\* the run's files go to the sample directory itself
dst_sample_fcid_dir_flat == sample_dir

dst_sample_fcid_dir == sample_dir \o <<fc_run_id>>
src_sample_dir ==
    fc_dir_structure.fc_dir \o project.data_dir
        \o <<project.project_dir>> \o <<sample.sample_dir>>

\* line 151
sample_skipped(name) ==
    restrict_to_samples # {} /\ name \notin restrict_to_samples

\* the samples of this project are done: next project
SamplesDone ==
    /\ pc = "sample"
    /\ i_sample > Len(project.samples)
    /\ i_project' = i_project + 1
    /\ pc' = "project"
    /\ UNCHANGED <<utility, inputs, outcome, todo, fc, fc_dir_structure, i_stats, i_sample,
                   project_obj, sample_obj, fcid_obj, projects_to_analyze, heap, dirs,
                   rsync_calls, last_call>>

SampleSkip ==
    /\ pc = "sample"
    /\ i_sample <= Len(project.samples)
    /\ sample_skipped(sample_name)
    /\ i_sample' = i_sample + 1
    /\ UNCHANGED <<utility, inputs, pc, outcome, todo, fc, fc_dir_structure, i_stats, i_project,
                   project_obj, sample_obj, fcid_obj, projects_to_analyze, heap, dirs,
                   rsync_calls, last_call>>

\* line 157
SampleMakedir ==
    /\ pc = "sample"
    /\ i_sample <= Len(project.samples)
    /\ ~sample_skipped(sample_name)
    /\ dirs' = IF sample_dir \in dirs THEN dirs ELSE safe_makedir(dirs, sample_dir)
    /\ pc' = "sample_obj"
    /\ UNCHANGED <<utility, inputs, outcome, todo, locals, projects_to_analyze, heap, rsync_calls, last_call>>

\* line 159
AddSample ==
    /\ pc = "sample_obj"
    /\ LET r == _add_subitem(heap, project_obj, sample_name, sample_name)
       IN  /\ heap' = r.heap
           /\ sample_obj' = r.subitem
           /\ last_call' = Call("add_sample", project_obj, sample_name, sample_name,
                                r.subitem)
    /\ pc' = "fcid_dir"
    /\ UNCHANGED <<utility, inputs, outcome, todo, fc, fc_dir_structure, i_stats, i_project,
                   i_sample, project_obj, fcid_obj, projects_to_analyze, dirs,
                   rsync_calls>>

\* line 162
FcidMakedir ==
    /\ pc = "fcid_dir"
    /\ dirs' = IF dst_sample_fcid_dir \in dirs THEN dirs
               ELSE safe_makedir(dirs, dst_sample_fcid_dir)
    /\ pc' = "fcid_obj"
    /\ UNCHANGED <<utility, inputs, outcome, todo, locals, projects_to_analyze, heap, rsync_calls, last_call>>

\* line 164
AddFcid ==
    /\ pc = "fcid_obj"
    /\ LET r == _add_subitem(heap, sample_obj, fc_run_id, fc_run_id)
       IN  /\ heap' = r.heap
           /\ fcid_obj' = r.subitem
           /\ last_call' = Call("add_fcid", sample_obj, fc_run_id, fc_run_id, r.subitem)
    /\ pc' = "rsync"
    /\ UNCHANGED <<utility, inputs, outcome, todo, fc, fc_dir_structure, i_stats, i_project,
                   i_sample, project_obj, sample_obj, projects_to_analyze, dirs,
                   rsync_calls>>

\* do_rsync with subprocess.call: the exit status of rsync is not looked at
SampleRsync_unchecked(ok) ==
    /\ pc = "rsync"
    /\ rsync_calls' = Append(rsync_calls,
                             [caller |-> "setup_analysis_directory_structure",
                              fc |-> fc,
                              src |-> Map(sample.files, LAMBDA f : src_sample_dir \o <<f>>),
                              dst |-> dst_sample_fcid_dir,
                              ok |-> ok])
    /\ pc' = "fastq"
    /\ UNCHANGED <<utility, inputs, outcome, todo, locals, projects_to_analyze, heap, dirs,
                   last_call>>

\* lines 174-175: do_rsync; a failing rsync raises CalledProcessError
SampleRsync(ok) ==
    /\ pc = "rsync"
    /\ rsync_calls' = Append(rsync_calls,
                             [caller |-> "setup_analysis_directory_structure",
                              fc |-> fc,
                              src |-> Map(sample.files, LAMBDA f : src_sample_dir \o <<f>>),
                              dst |-> dst_sample_fcid_dir,
                              ok |-> ok])
    /\ IF ok THEN /\ pc' = "fastq"
                  /\ UNCHANGED outcome
             ELSE Raise("CalledProcessError")
    /\ UNCHANGED <<utility, inputs, todo, locals, projects_to_analyze, heap, dirs, last_call>>

\* lines 177-179
AddFastqFiles ==
    /\ pc = "fastq"
    /\ heap' = add_fastq_files(heap, fcid_obj, fastq_filter(sample.files))
    /\ i_sample' = i_sample + 1
    /\ pc' = "sample"
    /\ UNCHANGED <<utility, inputs, outcome, todo, fc, fc_dir_structure, i_stats, i_project,
                   project_obj, sample_obj, fcid_obj, projects_to_analyze, dirs,
                   rsync_calls, last_call>>

(***************************************************************************)
(* main, lines 65-80, once the for loop is exhausted                       *)
(***************************************************************************)
MainNoProjects ==
    /\ pc = "for"
    /\ todo = {}
    /\ ~Truthy(projects_to_analyze)
    /\ pc' = "exit"
    /\ outcome' = "SystemExit: Quitting: No projects found to process."
    /\ UNCHANGED <<utility, inputs, todo, locals, projects_to_analyze, heap, dirs, rsync_calls, last_call>>

MainNoEngine ==
    /\ pc = "for"
    /\ todo = {}
    /\ Truthy(projects_to_analyze)
    /\ ~config.analysis_engine
    /\ Raise("RuntimeError: no analysis engine")
    /\ UNCHANGED <<utility, inputs, todo, locals, projects_to_analyze, heap, dirs, rsync_calls, last_call>>

\* line 80: the analysis engine receives projects_to_analyze.values()
MainAnalysis ==
    /\ pc = "for"
    /\ todo = {}
    /\ Truthy(projects_to_analyze)
    /\ config.analysis_engine
    /\ pc' = "done"
    /\ outcome' = "analysis_module.main"
    /\ UNCHANGED <<utility, inputs, todo, locals, projects_to_analyze, heap, dirs, rsync_calls, last_call>>

Next ==
    \/ MainConfigMissing
    \/ MainStart
    \/ \E d \in FcDirs : SetupTopDirMissing(d)
    \/ \E d \in FcDirs : SetupSkipped(d)
    \/ \E d \in FcDirs : SetupAssertion(d)
    \/ \E d \in FcDirs : SetupParsed(d)
    \/ \E ok \in BOOLEAN : copy_basecall_stats(ok)
    \/ StatsDone
    \/ ProjectSkip
    \/ ProjectMakedir
    \/ ProjectObj
    \/ SetupReturn
    \/ SamplesDone
    \/ SampleSkip
    \/ SampleMakedir
    \/ AddSample
    \/ FcidMakedir
    \/ AddFcid
    \/ \E ok \in BOOLEAN : SampleRsync(ok)
    \/ AddFastqFiles
    \/ MainNoProjects
    \/ MainNoEngine
    \/ MainAnalysis

Spec == Init /\ [][Next]_vars

(***************************************************************************)
(* A client of the hierarchy: the calls the reconciler makes (lines        *)
(* 142-146, 159, 164, 179), with any name, dirname and file list.          *)
(***************************************************************************)
n_other == <<"o", "t", "h">>
ClientProjects == {n_A, n_B_x}
ClientSamples == {n_S1, n_S_2}
ClientFcids == {run_id([fc_date |-> <<"1", "4">>, fc_name |-> <<"A", "H", "8">>]),
                run_id([fc_date |-> <<"1", "5">>, fc_name |-> <<"B", "H", "9">>])}
ClientFastqs == {<<f_x1.name>>, <<f_y1.name>>}
\* the dirname passed: the name itself (written <<>> here) or another one
ClientDirnames == {<<>>, n_other}

InitH ==
    /\ config = [file |-> TRUE, top_dir |-> TRUE, analysis_engine |-> TRUE]
    /\ demux_fcid_dirs_set = {}
    /\ restrict_to_projects = {}
    /\ restrict_to_samples = {}
    /\ pc = "client"
    /\ outcome = ""
    /\ todo = {}
    /\ fc = ""
    /\ fc_dir_structure = <<>>
    /\ i_stats = 0
    /\ i_project = 0
    /\ i_sample = 0
    /\ project_obj = 0
    /\ sample_obj = 0
    /\ fcid_obj = 0
    /\ projects_to_analyze = NewDict
    /\ heap = <<>>
    /\ dirs = {analysis_top_dir}
    /\ rsync_calls = <<>>
    /\ last_call = NoCall
    /\ utility = NoUtility

ClientProject(name) ==
    /\ pc = "client"
    /\ LET r == project_lookup(projects_to_analyze, heap, analysis_top_dir \o <<name>>,
                               name, analysis_top_dir)
       IN  /\ Len(r.heap) <= MaxObjects
           /\ projects_to_analyze' = r.pta
           /\ heap' = r.heap
           /\ project_obj' = r.project_obj
           /\ last_call' = Call("project_lookup", 0, name, name, r.project_obj)
    /\ UNCHANGED <<utility, inputs, pc, outcome, todo, fc, fc_dir_structure, i_stats, i_project,
                   i_sample, sample_obj, fcid_obj, dirs, rsync_calls>>

ClientAddSample(name, dirname) ==
    /\ pc = "client"
    /\ project_obj # 0
    /\ LET r == _add_subitem(heap, project_obj, name, dirname)
       IN  /\ Len(r.heap) <= MaxObjects
           /\ heap' = r.heap
           /\ sample_obj' = r.subitem
           /\ last_call' = Call("add_sample", project_obj, name, dirname, r.subitem)
    /\ UNCHANGED <<utility, inputs, pc, outcome, todo, fc, fc_dir_structure, i_stats, i_project,
                   i_sample, project_obj, fcid_obj, projects_to_analyze, dirs,
                   rsync_calls>>

ClientAddFcid(name, dirname) ==
    /\ pc = "client"
    /\ sample_obj # 0
    /\ LET r == _add_subitem(heap, sample_obj, name, dirname)
       IN  /\ Len(r.heap) <= MaxObjects
           /\ heap' = r.heap
           /\ fcid_obj' = r.subitem
           /\ last_call' = Call("add_fcid", sample_obj, name, dirname, r.subitem)
    /\ UNCHANGED <<utility, inputs, pc, outcome, todo, fc, fc_dir_structure, i_stats, i_project,
                   i_sample, project_obj, sample_obj, projects_to_analyze, dirs,
                   rsync_calls>>

ClientAddFastqFiles(fastq) ==
    /\ pc = "client"
    /\ fcid_obj # 0
    /\ Len(heap[fcid_obj]._subitems) + Len(fastq) <= MaxFastqs
    /\ heap' = add_fastq_files(heap, fcid_obj, fastq)
    /\ last_call' = Call("add_fastq_files", fcid_obj, <<>>, <<>>, 0)
    /\ UNCHANGED <<utility, inputs, pc, outcome, todo, locals, projects_to_analyze, dirs,
                   rsync_calls>>

NextH ==
    \/ \E name \in ClientProjects : ClientProject(name)
    \/ \E name \in ClientSamples, dirname \in ClientDirnames :
            ClientAddSample(name, IF dirname = <<>> THEN name ELSE dirname)
    \/ \E name \in ClientFcids, dirname \in ClientDirnames :
            ClientAddFcid(name, IF dirname = <<>> THEN name ELSE dirname)
    \/ \E fastq \in ClientFastqs : ClientAddFastqFiles(fastq)

SpecH == InitH /\ [][NextH]_vars

(***************************************************************************)
(* The stateless utilities: parse_lane_from_filename (358-393),            *)
(* find_fastq_read_pairs (415-475) and get_flowcell_id_from_dirtree        *)
(* (478-506).  The regular expressions are computed on the characters.     *)
(***************************************************************************)
\* largest number of files in a list or a directory given to find_fastq_read_pairs
MaxFiles == 2

Digit == {"0", "1", "2", "3", "4", "5", "6", "7", "8", "9"}
UpperCase == {"A", "B", "C", "D", "E", "F", "G", "H", "I", "J", "K", "L", "M",
              "N", "O", "P", "Q", "R", "S", "T", "U", "V", "W", "X", "Y", "Z"}
LowerCase == {"a", "b", "c", "d", "e", "f", "g", "h", "i", "j", "k", "l", "m",
              "n", "o", "p", "q", "r", "s", "t", "u", "v", "w", "x", "y", "z"}
\* \w of a Python 2 str pattern
Word == Digit \cup UpperCase \cup LowerCase \cup {"_"}

\* the characters i..j of s exist and all belong to the class
AllIn(s, i, j, class) == j <= Len(s) /\ \A k \in i..j : s[k] \in class

\* "." of a pattern matches any character but a line break
AnyChars(s, i, j) == \A k \in i..j : s[k] # "\n"

\* re.match(r'(?P<lane>\d)_\d{6}_\w{10}_(?P<project>P\d{3})_(?P<sample>\d{3}).*', s):
\* anchored at the start, every piece of fixed width
sthlm_match(s) ==
    /\ AllIn(s, 1, 1, Digit)
    /\ AllIn(s, 2, 2, {"_"})
    /\ AllIn(s, 3, 8, Digit)
    /\ AllIn(s, 9, 9, {"_"})
    /\ AllIn(s, 10, 19, Word)
    /\ AllIn(s, 20, 20, {"_"})
    /\ AllIn(s, 21, 21, {"P"})
    /\ AllIn(s, 22, 24, Digit)
    /\ AllIn(s, 25, 25, {"_"})
    /\ AllIn(s, 26, 28, Digit)

\* the positions at which r'.*_L(?P<lane>\d{3}).*' can place its "_L"
illumina_positions(s) ==
    {i \in 1..Len(s) : /\ AllIn(s, i, i, {"_"})
                       /\ AllIn(s, i + 1, i + 1, {"L"})
                       /\ AllIn(s, i + 2, i + 4, Digit)
                       /\ AnyChars(s, 1, i - 1)}

\* the leading .* is greedy: the match uses the last position
GreedyMax(positions) == CHOOSE i \in positions : \A j \in positions : j <= i

\* a parser that tries the '_L###' rule before the leading-lane rule
parse_lane_illumina_first(sample_basename) ==
    IF illumina_positions(sample_basename) # {}
    THEN LET i == GreedyMax(illumina_positions(sample_basename))
         IN  Utility("parse_lane_from_filename", sample_basename, "",
                     SubSeq(sample_basename, i + 2, i + 4))
    ELSE IF sthlm_match(sample_basename)
    THEN Utility("parse_lane_from_filename", sample_basename, "",
                 SubSeq(sample_basename, 1, 1))
    ELSE Utility("parse_lane_from_filename", sample_basename, "ValueError", <<>>)

parse_lane_from_filename(sample_basename) ==
    IF sthlm_match(sample_basename)
    THEN Utility("parse_lane_from_filename", sample_basename, "",
                 SubSeq(sample_basename, 1, 1))
    ELSE IF illumina_positions(sample_basename) # {}
    THEN LET i == GreedyMax(illumina_positions(sample_basename))
         IN  Utility("parse_lane_from_filename", sample_basename, "",
                     SubSeq(sample_basename, i + 2, i + 4))
    ELSE Utility("parse_lane_from_filename", sample_basename, "ValueError", <<>>)

\* the file names handed to parse_lane_from_filename: a head, a middle and a tail
LaneHeads ==
    {<<"1", "_", "1", "4", "0", "2", "2", "0", "_", "A", "H", "8", "A", "M", "J", "A", "D", "X", "X", "_", "P", "6", "7", "3", "_", "1", "0", "1">>,
     <<"1", "2", "_", "1", "4", "0", "2", "2", "0", "_", "A", "H", "8", "A", "M", "J", "A", "D", "X", "X", "_", "P", "6", "7", "3", "_", "1", "0", "1">>,
     <<"1", "_", "1", "4", "0", "2", "2", "0", "_", "A", "H", "8", "A", "M", "J", "A", "D", "X", "_", "P", "6", "7", "3", "_", "1", "0", "1">>,
     <<"1", "_", "1", "4", "0", "2", "2", "0", "_", "A", "H", "8", "A", "M", "J", "A", "D", "_", "X", "_", "P", "6", "7", "3", "_", "1", "0", "1">>,
     <<"P", "5", "6", "7", "_", "1", "0", "2", "_", "A", "A", "A", "A", "A", "A">>,
     <<>>}
LaneMiddles ==
    {<<>>,
     <<"_", "L", "0", "0", "1">>,
     <<"_", "L", "0", "1">>,
     <<"_", "L", "0", "0", "2", "_", "L", "0", "0", "3">>,
     <<"_", "l", "0", "0", "4">>,
     <<"L", "0", "0", "5">>}
LaneTails ==
    {<<"_", "1", ".", "f", "a", "s", "t", "q", ".", "g", "z">>,
     <<"_", "R", "1", "_", "0", "0", "1", ".", "f", "a", "s", "t", "q", ".", "g", "z">>,
     <<".", "t", "x", "t">>}
LaneNames == {h \o m \o t : h \in LaneHeads, m \in LaneMiddles, t \in LaneTails}

\* an argument of find_fastq_read_pairs: None, a list of paths or a str
None == [type |-> "None"]
List(items) == [type |-> "list", items |-> items]
Str(path) == [type |-> "str", path |-> path]

\* the truth value Python gives an argument
truth(x) ==
    CASE x.type = "None" -> FALSE
      [] x.type = "list" -> x.items # <<>>
      [] x.type = "str" -> x.path # <<>>

\* the working directory; a path is absolute when its first component is the
\* empty name (as in "/wd".split("/"))
cwd == << <<>>, <<"w", "d">> >>

\* os.path.abspath
abspath(path) == IF path # <<>> /\ path[1] = <<>> THEN path ELSE cwd \o path

\* glob.glob(os.path.join(directory, "*")) where the directory lists the names
\* of listing: the hidden names are left out
glob_star(directory, listing) ==
    Map(SelectSeq(listing, LAMBDA name : ~StartsWith(name, s_dot)),
        LAMBDA name : directory \o <<name>>)

\* the positions at which r'(.*)_(?:R\d|\d\.).*' can place its "_"
file_format_positions(s) ==
    {i \in 1..Len(s) : /\ AllIn(s, i, i, {"_"})
                       /\ \/ AllIn(s, i + 1, i + 1, {"R"}) /\ AllIn(s, i + 2, i + 2, Digit)
                          \/ AllIn(s, i + 1, i + 1, Digit) /\ AllIn(s, i + 2, i + 2, {"."})
                       /\ AnyChars(s, 1, i - 1)}

\* file_format_pattern.match(file_basename).groups()[0]
pair_base(file_basename) ==
    SubSeq(file_basename, 1, GreedyMax(file_format_positions(file_basename)) - 1)

\* matches_dict[key].append(value) on a defaultdict(list)
DictAppend(d, key, value) ==
    DictSet(d, key, Append(IF key \in DOMAIN d THEN d[key] ELSE <<>>, value))

\* the for loop of lines 459-474: a name the pattern does not match raises
\* AttributeError, and its handler reads file_fullname, a name that is bound
\* nowhere
RECURSIVE pair_loop(_, _)
pair_loop(file_list, matches_dict) ==
    IF file_list = <<>> THEN [raised |-> "", value |-> matches_dict]
    ELSE LET file_pathname == Head(file_list)
             file_basename == basename(file_pathname)
         IN  IF file_format_positions(file_basename) # {}
             THEN pair_loop(Tail(file_list),
                            DictAppend(matches_dict, pair_base(file_basename),
                                       abspath(file_pathname)))
             ELSE [raised |-> "NameError", value |-> matches_dict]

\* listing is what the disk holds in the directory that is globbed
find_fastq_read_pairs(file_list, directory, listing) ==
    LET arg == [file_list |-> file_list, directory |-> directory, listing |-> listing]
        \* lines 435-438
        as_dir == truth(file_list) /\ file_list.type # "list"
        directory2 == IF as_dir THEN file_list ELSE directory
        file_list2 == IF as_dir THEN None ELSE file_list
        \* lines 440-441
        file_list3 == IF truth(directory2)
                      THEN List(glob_star(directory2.path, listing))
                      ELSE file_list2
        \* lines 444-445: the pattern ends with "$" and its suffixes hold no "/",
        \* so that it matches a path when it matches the last component
        r == pair_loop(SelectSeq(file_list3.items,
                                 LAMBDA path : fastq_pattern(basename(path))),
                       EmptyDict)
    IN  IF ~truth(directory) \/ truth(file_list)
        THEN Utility("find_fastq_read_pairs", arg, "RuntimeError", EmptyDict)
        ELSE IF ~truth(file_list3)
        THEN Utility("find_fastq_read_pairs", arg, "", EmptyDict)
        ELSE Utility("find_fastq_read_pairs", arg, r.raised,
                     IF r.raised = "" THEN r.value ELSE EmptyDict)

\* the file names of the resolver's inputs: a stem, a read indicator (or none)
\* and an extension
PairStems == {<<"a">>,
     <<"b", "_", "L", "0", "0", "1">>}
PairReads == {<<"_", "1">>,
     <<"_", "2">>,
     <<"_", "R", "1", "_", "0", "0", "1">>,
     <<>>}
PairExtensions == {<<".", "f", "a", "s", "t", "q", ".", "g", "z">>,
     <<".", "t", "x", "t">>}
PairNames == {s \o r \o e : s \in PairStems, r \in PairReads, e \in PairExtensions}
           \cup {<<"1", "_", "1", "3", "1", "1", "2", "9", "_", "B", "H", "7", "V", "P", "T", "A", "D", "X", "X", "_", "P", "6", "0", "2", "_", "1", "0", "1", "_", "1", ".", "f", "a", "s", "t", "q", ".", "g", "z">>,
                 <<"1", "_", "1", "3", "1", "1", "2", "9", "_", "B", "H", "7", "V", "P", "T", "A", "D", "X", "X", "_", "P", "6", "0", "2", "_", "1", "0", "1", "_", "2", ".", "f", "a", "s", "t", "q", ".", "g", "z">>,
                 <<"b", "_", "R", "2", "_", "0", "0", "1", ".", "f", "q">>,
                 <<".", "h", "_", "1", ".", "f", "a", "s", "t", "q">>}
PairDirectories == {<< <<>>, <<"d">> >>, << <<"e">> >>}
\* every list of at most n names
Lists(S, n) == UNION {[1..k -> S] : k \in 0..n}

\* the text compiled at line 492
flowcell_pattern_text ==
    <<"\\", "d", "{", "4", ",", "6", "}", "_", "(", "?", "P", "=", "<", "f", "c", "i", "d", ">", "[", "A", "-", "Z", "0", "-", "9", "]", "{", "1", "0", "}", ")">>

\* the first position at or after i at which s holds the text p, 0 if none
RECURSIVE Find(_, _, _)
Find(s, p, i) ==
    IF i + Len(p) - 1 > Len(s) THEN 0
    ELSE IF SubSeq(s, i, i + Len(p) - 1) = p THEN i
    ELSE Find(s, p, i + 1)

\* re.compile on a text with a "(?P=" group: the characters up to the next ")"
\* are the name of a group referred back to, and must be an identifier
re_compile(text) ==
    LET open == Find(text, <<"(", "?", "P", "=">>, 1)
        close == Find(text, <<")">>, open + 4)
        name == SubSeq(text, open + 4, close - 1)
    IN  IF open = 0 THEN ""
        ELSE IF close = 0 \/ name = <<>> THEN "error"
        ELSE IF ~AllIn(name, 1, Len(name), Word) \/ name[1] \in Digit THEN "error"
        ELSE ""

\* re.compile raises before the try statement of line 493 is entered, for
\* every path: no statement of lines 493-506 is reached
get_flowcell_id_from_dirtree(path) ==
    Utility("get_flowcell_id_from_dirtree", path, re_compile(flowcell_pattern_text), <<>>)

\* the paths handed to get_flowcell_id_from_dirtree: <top>/<grandparent>/<parent>/<file>
FlowcellDirnames ==
    {<<"1", "4", "0", "2", "2", "0", "_", "A", "H", "8", "A", "M", "J", "A", "D", "X", "X">>,
     <<"1", "3", "1", "0", "_", "B", "C", "2", "N", "A", "N", "A", "C", "X", "X">>,
     <<"1", "4", "0", "2", "2", "0", "1", "_", "A", "H", "8", "A", "M", "J", "A", "D", "X", "X">>,
     <<"1", "4", "0", "2", "2", "0", "_", "a", "h", "8", "a", "m", "j", "a", "d", "x", "x">>,
     <<"P", "6", "7", "3", "_", "1", "0", "1">>,
     <<"x", "1", "4", "0", "2", "2", "0", "_", "A", "H", "8", "A", "M", "J", "A", "D", "X", "X">>}
FlowcellFiles == {<<"a", ".", "f", "a", "s", "t", "q", ".", "g", "z">>,
     <<"1", "3", "1", "0", "1", "8", "_", "B", "C", "2", "N", "A", "N", "A", "C", "X", "X">>}
FlowcellPaths ==
    {<< <<>>, g, p, f >> : g \in FlowcellDirnames, p \in FlowcellDirnames,
                           f \in FlowcellFiles}

\* what a call of a utility leaves alone
program == <<inputs, pc, outcome, todo, locals, projects_to_analyze, heap, dirs,
             rsync_calls, last_call>>

\* a call that has not been made yet
Pending(op, arg) == Utility(op, arg, "pending", <<>>)

InitU ==
    /\ config = [file |-> TRUE, top_dir |-> TRUE, analysis_engine |-> TRUE]
    /\ demux_fcid_dirs_set = {}
    /\ restrict_to_projects = {}
    /\ restrict_to_samples = {}
    /\ pc = "utility"
    /\ outcome = ""
    /\ todo = {}
    /\ fc = ""
    /\ fc_dir_structure = <<>>
    /\ i_stats = 0
    /\ i_project = 0
    /\ i_sample = 0
    /\ project_obj = 0
    /\ sample_obj = 0
    /\ fcid_obj = 0
    /\ projects_to_analyze = NewDict
    /\ heap = <<>>
    /\ dirs = {analysis_top_dir}
    /\ rsync_calls = <<>>
    /\ last_call = NoCall
    /\ \/ \E sample_basename \in LaneNames :
            utility = Pending("parse_lane_from_filename", sample_basename)
       \* find_fastq_read_pairs(file_list=[...]), with or without a directory
       \/ \E names \in Lists(PairNames, MaxFiles), d \in PairDirectories,
             directory \in {None} \cup {Str(e) : e \in PairDirectories} :
            utility = Pending("find_fastq_read_pairs",
                              [file_list |-> List(Map(names, LAMBDA name : d \o <<name>>)),
                               directory |-> directory, listing |-> <<>>])
       \* find_fastq_read_pairs(directory=...), the list left out or empty;
       \* listing is what the disk holds in the directory
       \/ \E file_list \in {None, List(<<>>)}, d \in PairDirectories,
             listing \in Lists(PairNames, MaxFiles) :
            utility = Pending("find_fastq_read_pairs",
                              [file_list |-> file_list, directory |-> Str(d),
                               listing |-> listing])
       \* find_fastq_read_pairs(<str>): a directory in the place of the list
       \/ \E d \in PairDirectories, listing \in Lists(PairNames, MaxFiles) :
            utility = Pending("find_fastq_read_pairs",
                              [file_list |-> Str(d), directory |-> None,
                               listing |-> listing])
       \/ \E path \in FlowcellPaths :
            utility = Pending("get_flowcell_id_from_dirtree", path)

ParseLane ==
    /\ pc = "utility"
    /\ utility.raised = "pending"
    /\ utility.op = "parse_lane_from_filename"
    /\ utility' = parse_lane_from_filename(utility.arg)
    /\ UNCHANGED program

FindPairs ==
    /\ pc = "utility"
    /\ utility.raised = "pending"
    /\ utility.op = "find_fastq_read_pairs"
    /\ utility' = find_fastq_read_pairs(utility.arg.file_list, utility.arg.directory,
                                        utility.arg.listing)
    /\ UNCHANGED program

FlowcellId ==
    /\ pc = "utility"
    /\ utility.raised = "pending"
    /\ utility.op = "get_flowcell_id_from_dirtree"
    /\ utility' = get_flowcell_id_from_dirtree(utility.arg)
    /\ UNCHANGED program

NextU ==
    \/ ParseLane
    \/ FindPairs
    \/ FlowcellId

SpecU == InitU /\ [][NextU]_vars

(***************************************************************************)
(* Properties                                                              *)
(***************************************************************************)
\* the child a call would find under its name in the current state, 0 if none
ExistingChild(c) ==
    IF c.op = "project_lookup"
    THEN IF /\ projects_to_analyze.type = "dict"
            /\ analysis_top_dir \o <<c.name>> \in DOMAIN projects_to_analyze.items
         THEN projects_to_analyze.items[analysis_top_dir \o <<c.name>>]
         ELSE 0
    ELSE IF /\ c.op \in {"add_sample", "add_fcid"}
            /\ c.self \in 1..Len(heap)
            /\ heap[c.self].type # "NGIFCID"
            /\ c.name \in DOMAIN heap[c.self]._subitems
         THEN heap[c.self]._subitems[c.name]
         ELSE 0

\* C1: an insertion (add_sample, add_fcid, or the lookup-or-create of a project
\* in the accumulating dict) under a name that is already present returns the
\* object that is there and changes nothing: no object is created, and no
\* dirname, child or file list of any object changes, whatever dirname is passed.
C1_IdempotentUpsert ==
    [][ExistingChild(last_call') # 0 =>
            /\ last_call'.subitem = ExistingChild(last_call')
            /\ heap' = heap
            /\ projects_to_analyze' = projects_to_analyze]_vars

\* an add_sample with another dirname found the sample, which has a run with files
C1_Witness ==
    /\ last_call.op = "add_sample"
    /\ last_call.dirname = n_other
    /\ heap[last_call.subitem].dirname # n_other
    /\ \E r \in DOMAIN heap[last_call.subitem]._subitems :
           heap[heap[last_call.subitem]._subitems[r]]._subitems # <<>>

\* main is between two calls of the reconciler, or past the loop
AtMain ==
    pc \in {"for", "done", "exit"} \/ outcome = "RuntimeError: no analysis engine"

\* the directories whose reconciler call has returned
Returned == IF AtMain THEN demux_fcid_dirs_set \ todo ELSE {}

\* what parse_casava_directory gives for each directory main may be given
Parsed == [d \in FcDirs |-> parse_casava_directory(d)]

\* the directories the for loop of main has taken
Taken == IF pc = "main" THEN {} ELSE demux_fcid_dirs_set \ todo

\* the directory exists and its metadata and samplesheets parse
Parses(d) == FileSystem(d).exists /\ Parsed[d].raised = ""

Description(d) == Parsed[d].value

\* the run id the metadata of a directory stands for: <date>_<position><flowcell>
ExpectedRunId(d) ==
    FileSystem(d).meta.run_info["Date"] \o <<"_">>
        \o FileSystem(d).meta.runparams["FCPosition"]
        \o FileSystem(d).meta.run_info["Flowcell"]

\* the (project name, sample name) pairs of a description that pass the allow-lists
Selected(d) ==
    {<<pr.project_name, sa.sample_name>> :
        <<pr, sa>> \in {<<pr, sa>> \in Range(Description(d).projects)
                                       \X UNION {Range(q.samples) :
                                                 q \in Range(Description(d).projects)} :
                           /\ sa \in Range(pr.samples)
                           /\ (restrict_to_projects = {}
                               \/ pr.project_name \in restrict_to_projects)
                           /\ (restrict_to_samples = {}
                               \/ sa.sample_name \in restrict_to_samples)}}

\* the file names a description lists for a sample of a project
FilesOf(d, p, s) ==
    UNION {Range(sa.files) :
             sa \in UNION {Range(pr.samples) :
                           pr \in {q \in Range(Description(d).projects) :
                                     q.project_name = p}} \cap
                    {x \in UNION {Range(q.samples) : q \in Range(Description(d).projects)} :
                       x.sample_name = s}}

\* the objects of the hierarchy main holds
ProjectObjs ==
    {projects_to_analyze.items[k] : k \in DOMAIN projects_to_analyze.items}
Children(o) == {heap[o]._subitems[n] : n \in DOMAIN heap[o]._subitems}
Named(objs, name) == {o \in objs : heap[o].name = name}

\* C2: once exactly two directories that both parse, with different run ids, have
\* been reconciled (in either order), every project and sample they share (and
\* that the allow-lists let through) is one Project with one Sample of that name
\* holding exactly two runs, one per run id, and the file list of each run holds
\* the files its own directory lists for the sample and no others.
C2_MergeAcrossRuns ==
    \A d1, d2 \in Returned :
        (/\ Returned = {d1, d2}
         /\ Parses(d1) /\ Parses(d2)
         /\ ExpectedRunId(d1) # ExpectedRunId(d2))
        => \A ps \in Selected(d1) \cap Selected(d2) :
             /\ Cardinality(Named(ProjectObjs, ps[1])) = 1
             /\ \A po \in Named(ProjectObjs, ps[1]) :
                  /\ Cardinality(Named(Children(po), ps[2])) = 1
                  /\ \A so \in Named(Children(po), ps[2]) :
                       /\ DOMAIN heap[so]._subitems
                            = {ExpectedRunId(d1), ExpectedRunId(d2)}
                       /\ Cardinality(Children(so)) = 2
                       /\ \A d \in {d1, d2} :
                            LET ro == heap[so]._subitems[ExpectedRunId(d)]
                            IN  /\ heap[ro].name = ExpectedRunId(d)
                                /\ Range(heap[ro]._subitems) = FilesOf(d, ps[1], ps[2])

\* fcA and fcB, which share project A and sample S1, are both reconciled
C2_Witness ==
    /\ Returned = {"fcA", "fcB"}
    /\ pc = "done"
    /\ <<n_A, n_S1>> \in Selected("fcA") \cap Selected("fcB")
    /\ \E po \in Named(ProjectObjs, n_A) : \E so \in Named(Children(po), n_S1) :
          /\ Range(heap[heap[so]._subitems[ExpectedRunId("fcA")]]._subitems)
                = {f_x1.name, f_x2.name}
          /\ Range(heap[heap[so]._subitems[ExpectedRunId("fcB")]]._subitems)
                = {f_y1.name}

\* every Project, Sample and Run of the hierarchy main holds, as its path of names
Nodes ==
    UNION {{<<heap[po].name>>}
           \cup UNION {{<<heap[po].name, heap[so].name>>}
                       \cup {<<heap[po].name, heap[so].name, heap[ro].name>> :
                               ro \in Children(so)} :
                       so \in Children(po)} :
           po \in ProjectObjs}

\* the project names of a description that pass the project allow-list
SelectedProjects(d) ==
    {pr.project_name : pr \in {q \in Range(Description(d).projects) :
                                 restrict_to_projects = {}
                                 \/ q.project_name \in restrict_to_projects}}

\* C3: a step of main in which the reconciler skips a directory (it does not
\* exist, or its metadata does not parse) keeps every Project, Sample and Run
\* accumulated so far; no later directory fails on the accumulated value; and
\* main stops with "No projects found" only if no directory produced a project.
C3_SkipKeepsAccumulated ==
    [][/\ (pc = "for" /\ pc' = "for" /\ todo' # todo) => Nodes \subseteq Nodes'
       /\ outcome' # "TypeError"
       /\ outcome' = "SystemExit: Quitting: No projects found to process."
            => \A d \in demux_fcid_dirs_set : Parses(d) => SelectedProjects(d) = {}]_vars

\* C4: no Run of the hierarchy lists a file name twice, also when the same
\* project, sample and run id are reached a second time.
C4_NoDuplicateFiles ==
    \A n \in Nodes : Len(n) = 3 =>
        \A po \in Named(ProjectObjs, n[1]) : \A so \in Named(Children(po), n[2]) :
            \A ro \in Named(Children(so), n[3]) :
                \A i, j \in 1..Len(heap[ro]._subitems) :
                    i # j => heap[ro]._subitems[i] # heap[ro]._subitems[j]

\* all project names and all (normalized) sample names of the given directories
AllProjectNames ==
    UNION {{pr.project_name : pr \in Range(Description(d).projects)} :
             d \in {e \in demux_fcid_dirs_set : Parses(e)}}
AllSampleNames ==
    UNION {UNION {{Replace(sa.sample_name, s_uu, s_dot) : sa \in Range(pr.samples)} :
                    pr \in Range(Description(d).projects)} :
             d \in {e \in demux_fcid_dirs_set : Parses(e)}}

SampleCalls ==
    {rsync_calls[i] : i \in {j \in 1..Len(rsync_calls) :
                               rsync_calls[j].caller = "setup_analysis_directory_structure"}}

\* C5: with a non-empty project allow-list a project outside it gets no
\* destination directory, no node and no transfer; with a non-empty sample
\* allow-list a sample whose normalized name is outside it gets no sample or
\* run directory, no node and no transfer; an empty list excludes nothing: every
\* project of a reconciled directory has its directory and node, and every
\* sample of such a project its directory, node and transfer.
C5_Filtering ==
    /\ restrict_to_projects # {} =>
         \A p \in AllProjectNames \ restrict_to_projects :
            /\ \A path \in dirs : Len(path) >= 2 => path[2] # p
            /\ \A o \in 1..Len(heap) : heap[o].type = "NGIProject" => heap[o].name # p
            /\ \A n \in Nodes : n[1] # p
            /\ \A c \in SampleCalls : c.dst[2] # p
    /\ restrict_to_samples # {} =>
         \A s \in AllSampleNames \ restrict_to_samples :
            /\ \A path \in dirs : Len(path) >= 3 => path[3] # s
            /\ \A o \in 1..Len(heap) : heap[o].type = "NGISample" => heap[o].name # s
            /\ \A n \in Nodes : Len(n) >= 2 => n[2] # s
            /\ \A c \in SampleCalls : c.dst[3] # s
    /\ (restrict_to_projects = {} /\ \A d \in Taken : Parses(d)) =>
         \A d \in Returned : \A pr \in Range(Description(d).projects) :
            /\ analysis_top_dir \o <<pr.project_name>> \in dirs
            /\ <<pr.project_name>> \in Nodes
            /\ restrict_to_samples = {} =>
                 \A sa \in Range(pr.samples) :
                    /\ analysis_top_dir \o <<pr.project_name, sa.sample_name>> \in dirs
                    /\ <<pr.project_name, sa.sample_name, ExpectedRunId(d)>> \in Nodes
                    /\ \E c \in SampleCalls :
                          /\ c.fc = d
                          /\ c.dst = analysis_top_dir \o <<pr.project_name, sa.sample_name,
                                                           ExpectedRunId(d)>>

\* fcB is reconciled with --project B.x: project B.x and its sample S.2 (from
\* Sample_S__2) are there, project A of the same directory is not
C5_Witness ==
    /\ "fcB" \in Returned
    /\ restrict_to_projects = {n_B_x}
    /\ restrict_to_samples = {n_S_2}
    /\ <<n_B_x, n_S_2, ExpectedRunId("fcB")>> \in Nodes
    /\ n_A \in AllProjectNames
    /\ <<n_A>> \notin Nodes

\* C6: a sample directory with no samplesheet, or with several, does not stop the
\* parse of its flowcell directory: the directory main has taken parses, the
\* description holds every sibling sample that has exactly one samplesheet, and
\* main does not end on the failed assertion.
C6_AmbiguousSamplesheetSkipsSample ==
    /\ outcome # "AssertionError"
    /\ \A d \in Taken :
         (/\ FileSystem(d).exists
          /\ Parsed[d].raised # "RuntimeError")
         => /\ Parsed[d].raised = ""
            /\ \A u \in Range(GlobDirPrefix(FileSystem(d).entries, s_Unaligned)) :
                 \A pd \in Range(GlobDirPrefix(u.entries, s_Project_)) :
                    \A sd \in Range(GlobDirPrefix(pd.entries, s_Sample_)) :
                       Len(GlobDirSuffix(sd.entries, s_csv)) = 1
                       => \E pr \in Range(Description(d).projects) :
                             /\ pr.project_dir = pd.name
                             /\ \E sa \in Range(pr.samples) : sa.sample_dir = sd.name

Last(seq) == seq[Len(seq)]

\* the step is a call of the transfer capability for a sample, and it fails
SampleTransferFails ==
    /\ Len(rsync_calls') = Len(rsync_calls) + 1
    /\ Last(rsync_calls').caller = "setup_analysis_directory_structure"
    /\ ~Last(rsync_calls').ok

\* C7: a failing transfer of a sample ends the reconciler call with that error
\* there and then: the step appends no file name to any Run (the hierarchy is
\* left as it was), and nothing runs afterwards: no sample, project or
\* directory is processed once the error is raised.
C7_TransferFailureAborts ==
    [][/\ SampleTransferFails =>
            /\ pc' = "raised"
            /\ outcome' = "CalledProcessError"
            /\ heap' = heap
            /\ projects_to_analyze' = projects_to_analyze
            /\ dirs' = dirs
       /\ outcome = "CalledProcessError" => UNCHANGED vars]_vars

\* the transfer of a sample with files failed; its Run is there and lists nothing
C7_Witness ==
    /\ outcome = "CalledProcessError"
    /\ Last(rsync_calls).caller = "setup_analysis_directory_structure"
    /\ Last(rsync_calls).src # <<>>
    /\ heap[fcid_obj].type = "NGIFCID"
    /\ heap[fcid_obj]._subitems = <<>>
    /\ todo # {}

\* the exit status of the process for an outcome of main: sys.exit with a
\* message and an uncaught exception both end the process with status 1
ExitStatus(o) == IF o = "analysis_module.main" THEN 0 ELSE 1

\* C8: when the for loop of main is exhausted and no project is accumulated, the
\* next step of main ends it with the "No projects found" message and a
\* non-zero status; the analysis engine is only ever invoked with at least one
\* project, and nothing runs after the exit.
C8_NoProjectsIsFatal ==
    [][/\ (pc = "for" /\ todo = {} /\ ProjectObjs = {}) =>
            /\ pc' = "exit"
            /\ outcome' = "SystemExit: Quitting: No projects found to process."
            /\ ExitStatus(outcome') # 0
       /\ outcome' = "analysis_module.main" => ProjectObjs' # {}
       /\ pc = "exit" => UNCHANGED vars]_vars

\* main exits on "No projects found" after a directory was parsed and its
\* statistics copied (the allow-list let no project through)
C8_Witness ==
    /\ pc = "exit"
    /\ outcome = "SystemExit: Quitting: No projects found to process."
    /\ rsync_calls # <<>>
    /\ config.analysis_engine

\* every Basecall_Stats directory of the description of d has been handed to the
\* transfer capability, with its destination below analysis_top_dir
StatsCopied(d) ==
    \A rel \in Range(Description(d).basecall_stats_dir) :
        /\ analysis_top_dir \o <<Last(rel)>> \in dirs
        /\ \E i \in 1..Len(rsync_calls) :
              /\ rsync_calls[i].caller = "_copy_basecall_stats"
              /\ rsync_calls[i].fc = d
              /\ rsync_calls[i].dst = analysis_top_dir \o <<Last(rel)>>
              /\ rsync_calls[i].ok

\* the step creates a project, sample or run directory, inserts a node, or
\* calls the transfer capability for a sample
ProjectWork ==
    \/ heap' # heap
    \/ DOMAIN projects_to_analyze'.items \ DOMAIN projects_to_analyze.items # {}
    \/ dirs' # dirs /\ rsync_calls' = rsync_calls
    \/ /\ Len(rsync_calls') = Len(rsync_calls) + 1
       /\ Last(rsync_calls').caller = "setup_analysis_directory_structure"

\* C9: for a description that parsed, every project directory, node and sample
\* transfer comes after the copy of all its statistics directories, and the
\* copy is made whatever the allow-lists are: it is complete for every
\* directory whose reconciler call has returned.
C9_StatsCopiedFirst ==
    /\ [][ProjectWork => Parses(fc') /\ StatsCopied(fc')]_vars
    /\ [](\A d \in Returned : Parses(d) => StatsCopied(d))

\* fcA was reconciled with an allow-list that excludes its only project: its
\* statistics directory was copied, and there is no project
C9_Witness ==
    /\ "fcA" \in Returned
    /\ restrict_to_projects = {n_B_x}
    /\ Description("fcA").basecall_stats_dir # <<>>
    /\ StatsCopied("fcA")
    /\ ProjectObjs = {}

\* a name ends in .fastq or .fq, optionally followed by .gz, .gzip or .bz2
IsSequenceFile(name) ==
    \E suffix \in {s_fastq, s_fq, s_fastq \o s_gz, s_fq \o s_gz, s_fastq \o s_gzip,
                   s_fq \o s_gzip, s_fastq \o s_bz2, s_fq \o s_bz2} :
        EndsWith(name, suffix)

\* the successful transfers of samples whose file names have been appended
AppliedCalls ==
    LET n == IF pc = "fastq" THEN Len(rsync_calls) - 1 ELSE Len(rsync_calls)
    IN  SelectSeq(SubSeq(rsync_calls, 1, n),
                  LAMBDA c : c.caller = "setup_analysis_directory_structure" /\ c.ok)

\* the sequence files among the sources of the transfers into one destination,
\* in the order of the calls and of each call's list
RECURSIVE SequenceFilesInto(_, _)
SequenceFilesInto(calls, dst) ==
    IF calls = <<>> THEN <<>>
    ELSE (IF Head(calls).dst = dst
          THEN SelectSeq(Map(Head(calls).src, Last), IsSequenceFile)
          ELSE <<>>)
         \o SequenceFilesInto(Tail(calls), dst)

\* C10: the file list of every Run is, in order, the sequence files (.fastq or
\* .fq, optionally .gz, .gzip or .bz2) among the files of the samples transferred
\* into its directory; the transfer of a sample is handed every file of the
\* sample's list, each from the sample's source directory; no samplesheet or
\* other file is in a Run.
C10_OnlySequenceFilesRecorded ==
    /\ \A n \in Nodes : Len(n) = 3 =>
         \A po \in Named(ProjectObjs, n[1]) : \A so \in Named(Children(po), n[2]) :
            \A ro \in Named(Children(so), n[3]) :
               /\ heap[ro]._subitems = SequenceFilesInto(AppliedCalls, analysis_top_dir \o n)
               /\ \A i \in 1..Len(heap[ro]._subitems) :
                     IsSequenceFile(heap[ro]._subitems[i])
    /\ pc = "fastq" =>
         /\ Map(Last(rsync_calls).src, Last) = sample.files
         /\ \A i \in 1..Len(sample.files) :
               Last(rsync_calls).src[i]
                  = <<FileSystem(fc).name>> \o project.data_dir
                       \o <<project.project_dir, sample.sample_dir, sample.files[i]>>

\* sample S1 of fcA was transferred with both files, and its Run lists them in order
C10_Witness ==
    /\ pc = "sample"
    /\ fc = "fcA"
    /\ \E i \in 1..Len(rsync_calls) :
          /\ rsync_calls[i].caller = "setup_analysis_directory_structure"
          /\ Len(rsync_calls[i].src) = 2
    /\ heap[fcid_obj]._subitems = <<f_x1.name, f_x2.name>>

(***************************************************************************)
(* The stateless utilities (SpecU).                                        *)
(***************************************************************************)
\* the call in utility is find_fastq_read_pairs with a list of files only, or
\* with a directory only
PairsCall ==
    /\ utility.op = "find_fastq_read_pairs"
    /\ utility.raised # "pending"
    /\ \/ utility.arg.file_list.type = "list" /\ utility.arg.directory.type = "None"
       \/ utility.arg.file_list.type = "None" /\ utility.arg.directory.type = "str"

\* the sequence files of the input of that call, as the resolver names them;
\* in a directory, the files its listing shows (hidden ones are not shown)
PairsInput ==
    LET paths == IF utility.arg.file_list.type = "list"
                 THEN Range(utility.arg.file_list.items)
                 ELSE {utility.arg.directory.path \o <<name>> :
                         name \in {n \in Range(utility.arg.listing) :
                                     ~StartsWith(n, s_dot)}}
    IN  {abspath(path) : path \in {q \in paths : IsSequenceFile(basename(q))}}

\* two paths in the same directory whose names differ in the read digit only
Mates(f, g) ==
    LET a == basename(f)
        b == basename(g)
        diff == {k \in 1..Len(a) : a[k] # b[k]}
    IN  /\ SubSeq(f, 1, Len(f) - 1) = SubSeq(g, 1, Len(g) - 1)
        /\ Len(a) = Len(b)
        /\ Cardinality(diff) = 1
        /\ \A k \in diff :
             /\ a[k] \in Digit /\ b[k] \in Digit
             /\ \/ AllIn(a, k - 1, k - 1, {"_"}) /\ AllIn(a, k + 1, k + 1, {"."})
                \/ AllIn(a, k - 2, k - 2, {"_"}) /\ AllIn(a, k - 1, k - 1, {"R"})

GroupsOf(f) == {key \in DOMAIN utility.value : f \in Range(utility.value[key])}

\* C11: find_fastq_read_pairs, called with a list of files or with a directory,
\* returns a mapping in which every sequence file of the input is in exactly one
\* group, the two reads of a pair in the same one, and a name without a read
\* indicator under its fallback key.
C11_ResolverTotal ==
    PairsCall =>
        /\ utility.raised = ""
        /\ \A f \in PairsInput : Cardinality(GroupsOf(f)) = 1
        /\ \A f, g \in PairsInput : Mates(f, g) => GroupsOf(f) = GroupsOf(g)

\* the widths n for which name starts with n digits, "_" and ten characters of
\* A-Z and 0-9
TokenWidths(name) ==
    {n \in 4..6 : /\ AllIn(name, 1, n, Digit)
                  /\ AllIn(name, n + 1, n + 1, {"_"})
                  /\ AllIn(name, n + 2, n + 11, UpperCase \cup Digit)}

TokenCode(name) ==
    LET n == CHOOSE w \in TokenWidths(name) : TRUE
    IN  SubSeq(name, n + 2, n + 11)

\* C12: get_flowcell_id_from_dirtree, given the path of a file, returns the code
\* of the '<4-6 digits>_<10 characters>' token of the parent directory's name,
\* else of the grandparent directory's name, and raises ValueError when
\* neither name holds the token.
C12_FlowcellIdFromPath ==
    (utility.op = "get_flowcell_id_from_dirtree" /\ utility.raised # "pending") =>
        LET path == utility.arg
            parent == path[Len(path) - 1]
            grandparent == path[Len(path) - 2]
        IN  IF TokenWidths(parent) # {}
            THEN utility.raised = "" /\ utility.value = TokenCode(parent)
            ELSE IF TokenWidths(grandparent) # {}
            THEN utility.raised = "" /\ utility.value = TokenCode(grandparent)
            ELSE utility.raised = "ValueError"

\* the leading form '<lane digit>_<6 digits>_<10 word characters>_P<3 digits>_<3 digits>',
\* character by character
LeadingForm ==
    <<Digit, {"_"}>>
    \o [k \in 1..6 |-> Digit] \o <<{"_"}>>
    \o [k \in 1..10 |-> Word] \o <<{"_"}, {"P"}>>
    \o [k \in 1..3 |-> Digit] \o <<{"_"}>>
    \o [k \in 1..3 |-> Digit]

HasLeadingForm(name) ==
    /\ Len(name) >= Len(LeadingForm)
    /\ \A k \in 1..Len(LeadingForm) : name[k] \in LeadingForm[k]

\* the three digits of the '_L###' tokens of a name
LaneTokens(name) ==
    {SubSeq(name, i + 2, i + 4) :
        i \in {j \in 1..Len(name) : /\ j + 4 <= Len(name)
                                    /\ SubSeq(name, j, j + 1) = <<"_", "L">>
                                    /\ \A k \in j + 2..j + 4 : name[k] \in Digit}}

LaneCalled == utility.op = "parse_lane_from_filename" /\ utility.raised # "pending"

ProjectsOnHeap == {o \in 1..Len(heap) : heap[o].type = "NGIProject"}

\* C14: in every state, also the one a failed transfer leaves, every Project,
\* Sample and Run node that has been created has its directory
\* analysis_top_dir/project, .../sample, .../run id among the existing ones.
C14_DirectoryBeforeNode ==
    \A po \in ProjectsOnHeap :
        /\ heap[po].base_path \o <<heap[po].name>> \in dirs
        /\ \A so \in Children(po) :
             /\ heap[po].base_path \o <<heap[po].name, heap[so].name>> \in dirs
             /\ \A ro \in Children(so) :
                  heap[po].base_path \o <<heap[po].name, heap[so].name, heap[ro].name>>
                      \in dirs

\* a transfer has failed after the run node of the sample was inserted
C14_Witness ==
    /\ outcome = "CalledProcessError"
    /\ fcid_obj # 0
    /\ \E po \in ProjectObjs : \E so \in Children(po) :
         /\ fcid_obj \in Children(so)
         /\ analysis_top_dir \o <<heap[po].name, heap[so].name, heap[fcid_obj].name>>
                \in dirs

\* the projects of a description that pass the project allow-list while the
\* sample allow-list excludes every one of their samples
ZeroSampleProjects(d) ==
    {pr \in Range(Description(d).projects) :
        /\ pr.project_name \in SelectedProjects(d)
        /\ \A sa \in Range(pr.samples) : <<pr.project_name, sa.sample_name>> \notin Selected(d)}

\* main has passed its test of projects_to_analyze, one way or the other
MainDecided ==
    outcome \in {"SystemExit: Quitting: No projects found to process.",
                 "RuntimeError: no analysis engine", "analysis_module.main"}

====
